---- MODULE Spec2Model ----
(***************************************************************************)
(* Delaware school closings: the status classifier, the entity matchers,   *)
(* the reconciliation pass and the closings cache of the Express servers   *)
(* (two-catalog and three-catalog variants) and of the batch script, and   *)
(* the polling cycle of the App component of the clients.                  *)
(*                                                                         *)
(* Text is modelled by TLA+ strings; a JavaScript string operation is an   *)
(* operator over Len, SubSeq and \o, computed as the engine computes it.   *)
(***************************************************************************)
EXTENDS Integers, Sequences, FiniteSets, Bags, TLC

VARIABLES
    text,                \* classifier: the combined text handed to detectStatusType
    statusType,          \* classifier: the category each scheme returned for text
    rows,                \* the rows of the parsed feed (server: of the feed behind closingsCache)
    catalogs,            \* reconciliation: the district / charter catalogs in use
    result,              \* reconciliation: what each variant built from rows
    variant,             \* server: "two" or "three" catalog server
    clock,               \* server: Date.now()
    districtsCache,      \* server: let districtsCache
    votechCache,         \* server: let votechCache
    charterCache,        \* server: let charterCache
    closingsCache,       \* server: let closingsCache
    closingsLastFetched, \* server: let closingsLastFetched
    calls,               \* server: the bag of fetchClosings invocations in progress
    sent,                \* server: the last answer of the /api/closings route
    feedRequests,        \* server: how many axios.get(CLOSINGS_URL) were issued
    app,                 \* client: the state and the refs of the App component
    cycles,              \* client: the loadData invocations in progress
    polls                \* client: how many times loadData was called

classifyVars == <<text, statusType>>
reconcileVars == <<rows, catalogs, result>>
serverVars == <<variant, clock, districtsCache, votechCache, charterCache,
                closingsCache, closingsLastFetched, calls, sent, feedRequests>>
clientVars == <<app, cycles, polls>>
vars == <<text, statusType, rows, catalogs, result, variant, clock,
          districtsCache, votechCache, charterCache, closingsCache,
          closingsLastFetched, calls, sent, feedRequests, app, cycles, polls>>

\* JavaScript null where an object is expected, and where a string is expected
NULL == [null |-> TRUE]
NoString == "<null>"

-----------------------------------------------------------------------------
(* JavaScript strings *)

LowerLetters ==
    {"a", "b", "c", "d", "e", "f", "g", "h", "i", "j", "k", "l", "m", "n",
    "o", "p", "q", "r", "s", "t", "u", "v", "w", "x", "y", "z"}
UpperLetters ==
    {"A", "B", "C", "D", "E", "F", "G", "H", "I", "J", "K", "L", "M", "N",
    "O", "P", "Q", "R", "S", "T", "U", "V", "W", "X", "Y", "Z"}
Digits == {"0", "1", "2", "3", "4", "5", "6", "7", "8", "9"}

\* String.prototype.toLowerCase, character table
LowerMap ==
    ("A" :> "a") @@ ("B" :> "b") @@ ("C" :> "c") @@ ("D" :> "d") @@ ("E" :>
    "e") @@ ("F" :> "f") @@ ("G" :> "g") @@ ("H" :> "h") @@ ("I" :> "i") @@
    ("J" :> "j") @@ ("K" :> "k") @@ ("L" :> "l") @@ ("M" :> "m") @@ ("N" :>
    "n") @@ ("O" :> "o") @@ ("P" :> "p") @@ ("Q" :> "q") @@ ("R" :> "r") @@
    ("S" :> "s") @@ ("T" :> "t") @@ ("U" :> "u") @@ ("V" :> "v") @@ ("W" :>
    "w") @@ ("X" :> "x") @@ ("Y" :> "y") @@ ("Z" :> "z")

Char(s, i) == SubSeq(s, i, i)

\* \s of a regular expression and the white space String.prototype.trim strips
IsSpace(c) == c \in {" ", "\t", "\n"}

\* \w of a regular expression
IsWordChar(c) == c \in LowerLetters \cup UpperLetters \cup Digits \cup {"_"}

lowerChar(c) == IF c \in UpperLetters THEN LowerMap[c] ELSE c

RECURSIVE toLowerCase(_)
toLowerCase(s) ==
    IF s = "" THEN ""
    ELSE lowerChar(Char(s, 1)) \o toLowerCase(SubSeq(s, 2, Len(s)))

RECURSIVE trimStart(_)
trimStart(s) ==
    IF s # "" /\ IsSpace(Char(s, 1)) THEN trimStart(SubSeq(s, 2, Len(s))) ELSE s

RECURSIVE trimEnd(_)
trimEnd(s) ==
    IF s # "" /\ IsSpace(Char(s, Len(s)))
    THEN trimEnd(SubSeq(s, 1, Len(s) - 1)) ELSE s

trim(s) == trimEnd(trimStart(s))

\* String.prototype.includes
includes(s, sub) ==
    \E i \in 0..(Len(s) - Len(sub)) : SubSeq(s, i + 1, i + Len(sub)) = sub

-----------------------------------------------------------------------------
(* Regular expression pieces.  A position i in 0..Len(s) lies between      *)
(* character i and character i + 1.                                        *)

\* \b at position i
WordBoundary(s, i) ==
    (i >= 1 /\ IsWordChar(Char(s, i))) # (i < Len(s) /\ IsWordChar(Char(s, i + 1)))

\* the literal lit matches right after position i
LitAt(s, i, lit) ==
    /\ i + Len(lit) <= Len(s)
    /\ SubSeq(s, i + 1, i + Len(lit)) = lit

\* the k characters after position i are all white space
SpaceRun(s, i, k) ==
    /\ i + k <= Len(s)
    /\ \A j \in (i + 1)..(i + k) : IsSpace(Char(s, j))

\* /delay/.test(s): the pattern without its word boundaries
reDelayNoBoundary(s) == includes(s, "delay")

\* /\bdelay(ed|s)?\b/.test(s)
reDelay(s) ==
    \E i \in 0..Len(s) :
        /\ WordBoundary(s, i)
        /\ LitAt(s, i, "delay")
        /\ \E suf \in {"ed", "s", ""} :
              /\ LitAt(s, i + 5, suf)
              /\ WordBoundary(s, i + 5 + Len(suf))

\* /\blate\s+(start|open)/.test(s)
reLateStart(s) ==
    \E i \in 0..Len(s) :
        /\ WordBoundary(s, i)
        /\ LitAt(s, i, "late")
        /\ \E k \in 1..Len(s) :
              /\ SpaceRun(s, i + 4, k)
              /\ \E w \in {"start", "open"} : LitAt(s, i + 4 + k, w)

\* /\bearly\b/.test(s)
reEarly(s) ==
    \E i \in 0..Len(s) :
        WordBoundary(s, i) /\ LitAt(s, i, "early") /\ WordBoundary(s, i + 5)

\* /^dismiss/.test(s): the pattern anchored at the start of the text
reDismissAtStart(s) == LitAt(s, 0, "dismiss")

\* /\bdismiss/.test(s)
reDismiss(s) ==
    \E i \in 0..Len(s) : WordBoundary(s, i) /\ LitAt(s, i, "dismiss")

\* /\bearly\s+dismissal\b/.test(s)
reEarlyDismissal(s) ==
    \E i \in 0..Len(s) :
        /\ WordBoundary(s, i)
        /\ LitAt(s, i, "early")
        /\ \E k \in 1..Len(s) :
              /\ SpaceRun(s, i + 5, k)
              /\ LitAt(s, i + 5 + k, "dismissal")
              /\ WordBoundary(s, i + 5 + k + 9)

\* /\bclos(ed|ing|ure|ures)\b/.test(s)
reClos(s) ==
    \E i \in 0..Len(s) :
        /\ WordBoundary(s, i)
        /\ LitAt(s, i, "clos")
        /\ \E suf \in {"ed", "ing", "ure", "ures"} :
              /\ LitAt(s, i + 4, suf)
              /\ WordBoundary(s, i + 4 + Len(suf))

-----------------------------------------------------------------------------
(* Status classifier *)

\* two-catalog server
detectStatusType2(t) ==
    LET lower == toLowerCase(t) IN
    IF reDelay(lower) \/ reLateStart(lower) THEN "delay"
    ELSE IF reEarly(lower) \/ reDismiss(lower) THEN "early dismissal"
    ELSE "closed"

\* the strict scheme falling back to 'closed' as the loose scheme does
detectStatusType3DefaultClosed(t) ==
    LET lower == toLowerCase(t) IN
    IF reDelay(lower) THEN "delay"
    ELSE IF reEarlyDismissal(lower) THEN "early dismissal"
    ELSE "closed"

\* three-catalog server
detectStatusType3(t) ==
    LET lower == toLowerCase(t) IN
    IF reDelay(lower) THEN "delay"
    ELSE IF reEarlyDismissal(lower) THEN "early dismissal"
    ELSE IF reClos(lower) THEN "closed"
    ELSE "info"

\* batch script, classifier inlined in fetchClosings; given the combined text
batchStatusType(t) ==
    LET lowerDetails == toLowerCase(t) IN
    IF reDelay(lowerDetails) \/ reLateStart(lowerDetails) THEN "delay"
    ELSE IF reEarly(lowerDetails) \/ reDismiss(lowerDetails) THEN "early dismissal"
    ELSE "closed"

-----------------------------------------------------------------------------
(* String.prototype.replace with the two patterns of the matchers *)

\* how many white space characters follow position i
RECURSIVE SpacesFrom(_, _)
SpacesFrom(s, i) ==
    IF i < Len(s) /\ IsSpace(Char(s, i + 1)) THEN 1 + SpacesFrom(s, i + 1) ELSE 0

\* the literal lit matches right after position i, ignoring case (flag i)
LitAtI(s, i, lit) ==
    /\ i + Len(lit) <= Len(s)
    /\ toLowerCase(SubSeq(s, i + 1, i + Len(lit))) = lit

\* where a match of /\s*school\s*district\s*/i that starts at position i ends;
\* -1 when none starts there
SchoolDistrictEnd(s, i) ==
    LET a == i + SpacesFrom(s, i) IN
    IF ~LitAtI(s, a, "school") THEN -1
    ELSE LET b == a + 6 + SpacesFrom(s, a + 6) IN
         IF ~LitAtI(s, b, "district") THEN -1
         ELSE b + 8 + SpacesFrom(s, b + 8)

\* s.replace(/\s*school\s*district\s*/i, ''): the leftmost match only
replaceSchoolDistrict(s) ==
    LET starts == {i \in 0..Len(s) : SchoolDistrictEnd(s, i) # -1} IN
    IF starts = {} THEN s
    ELSE LET i == CHOOSE x \in starts : \A y \in starts : x <= y IN
         SubSeq(s, 1, i) \o SubSeq(s, SchoolDistrictEnd(s, i) + 1, Len(s))

\* where a match of /\s*\(.*?\)\s*/ that starts at position i ends; -1 when
\* none starts there ('.' matches no line break, '.*?' stops at the first ')')
ParenEnd(s, i) ==
    LET a == i + SpacesFrom(s, i) IN
    IF ~LitAt(s, a, "(") THEN -1
    ELSE LET closers == {k \in (a + 2)..Len(s) :
                            /\ Char(s, k) = ")"
                            /\ \A j \in (a + 2)..(k - 1) : Char(s, j) # "\n"} IN
         IF closers = {} THEN -1
         ELSE LET k == CHOOSE x \in closers : \A y \in closers : x <= y IN
              k + SpacesFrom(s, k)

\* s.replace(/\s*\(.*?\)\s*/g, ''): every match, left to right
RECURSIVE replaceParens(_)
replaceParens(s) ==
    LET starts == {i \in 0..Len(s) : ParenEnd(s, i) # -1} IN
    IF starts = {} THEN s
    ELSE LET i == CHOOSE x \in starts : \A y \in starts : x <= y IN
         SubSeq(s, 1, i) \o replaceParens(SubSeq(s, ParenEnd(s, i) + 1, Len(s)))

-----------------------------------------------------------------------------
(* Feed rows and closure records *)

\* the record pushed for one row; combined text is details, label, title
ClosureRecord(district, details, date, category) ==
    [schoolName |-> district,
     status     |-> IF details = "" THEN "Closed" ELSE details,
     statusType |-> category,
     date       |-> date]

\* the row loop without its guard on the label: every row is pushed
RECURSIVE parseRowsKeepEmpty(_, _, _)
parseRowsKeepEmpty(rs, i, scheme) ==
    IF i > Len(rs) THEN <<>>
    ELSE LET district == trim(rs[i].district)
             details  == trim(rs[i].details)
             title    == trim(rs[i].title)
             date     == trim(rs[i].date)
             combined == details \o " " \o district \o " " \o title
         IN  <<ClosureRecord(district, details, date,
                             IF scheme = "three"
                             THEN detectStatusType3(combined)
                             ELSE detectStatusType2(combined))>>
             \o parseRowsKeepEmpty(rs, i + 1, scheme)

\* $('row').each(...) of both servers: the closings pushed for rows[i..]
RECURSIVE parseRows(_, _, _)
parseRows(rs, i, scheme) ==
    IF i > Len(rs) THEN <<>>
    ELSE LET district == trim(rs[i].district)
             details  == trim(rs[i].details)
             title    == trim(rs[i].title)
             date     == trim(rs[i].date)
             combined == details \o " " \o district \o " " \o title
         IN  IF district = "" THEN parseRows(rs, i + 1, scheme)
             ELSE <<ClosureRecord(district, details, date,
                                  IF scheme = "three"
                                  THEN detectStatusType3(combined)
                                  ELSE detectStatusType2(combined))>>
                  \o parseRows(rs, i + 1, scheme)

\* the row loop of the batch script stopping at the first row without a label
RECURSIVE batchParseRowsUntilEmpty(_, _)
batchParseRowsUntilEmpty(rs, i) ==
    IF i > Len(rs) THEN <<>>
    ELSE LET district == trim(rs[i].district)
             details  == trim(rs[i].details)
             title    == trim(rs[i].title)
             date     == trim(rs[i].date)
         IN  IF district # ""
             THEN <<ClosureRecord(district, details, date,
                      batchStatusType(details \o " " \o district \o " " \o title))>>
                  \o batchParseRowsUntilEmpty(rs, i + 1)
             ELSE <<>>

\* $('row').each(...) of the batch script, with its inlined classifier
RECURSIVE batchParseRows(_, _)
batchParseRows(rs, i) ==
    IF i > Len(rs) THEN <<>>
    ELSE LET district == trim(rs[i].district)
             details  == trim(rs[i].details)
             title    == trim(rs[i].title)
             date     == trim(rs[i].date)
         IN  IF district # ""
             THEN <<ClosureRecord(district, details, date,
                      batchStatusType(details \o " " \o district \o " " \o title))>>
                  \o batchParseRows(rs, i + 1)
             ELSE batchParseRows(rs, i + 1)

-----------------------------------------------------------------------------
(* Entity matchers *)

\* the core without the replace: the whole lowercased name
districtCoreKeepPhrase(name) == trim(toLowerCase(name))

\* name.toLowerCase().replace(/\s*school\s*district\s*/i, '').trim()
districtCore(name) == trim(replaceSchoolDistrict(toLowerCase(name)))

\* matchDistrict of both servers: the loop over districtNames from index i
RECURSIVE matchDistrictFrom(_, _, _)
matchDistrictFrom(closing, districtNames, i) ==
    IF i > Len(districtNames) THEN NoString
    ELSE LET lower == toLowerCase(closing.schoolName \o " " \o closing.status)
             core  == districtCore(districtNames[i])
         IN  IF Len(core) > 2 /\ includes(lower, core) THEN districtNames[i]
             ELSE matchDistrictFrom(closing, districtNames, i + 1)

\* matchDistrict falling back to the label of the feed when no name matches
matchDistrictOrLabel(closing, districtNames) ==
    LET name == matchDistrictFrom(closing, districtNames, 1) IN
    IF name = NoString THEN closing.schoolName ELSE name

matchDistrict(closing, districtNames) == matchDistrictFrom(closing, districtNames, 1)

\* matchClosingToDistrict of the batch script
RECURSIVE matchClosingToDistrictFrom(_, _, _)
matchClosingToDistrictFrom(closing, districtNames, i) ==
    IF i > Len(districtNames) THEN NoString
    ELSE LET closingLower == toLowerCase(closing.schoolName \o " " \o closing.status)
             core == districtCore(districtNames[i])
         IN  IF includes(closingLower, core) /\ Len(core) > 2 THEN districtNames[i]
             ELSE matchClosingToDistrictFrom(closing, districtNames, i + 1)

matchClosingToDistrict(closing, districtNames) ==
    matchClosingToDistrictFrom(closing, districtNames, 1)

\* Object.entries(VOTECH_MAP): keys in insertion order
VOTECH_KEYS == <<"NEW CASTLE", "POLYTECH", "SUSSEX TECH">>

VOTECH_MAP ==
    [k \in {"NEW CASTLE", "POLYTECH", "SUSSEX TECH"} |->
        CASE k = "NEW CASTLE" ->
               [displayName |-> "New Castle County Vocational-Technical School District",
                matchTerms  |-> <<"new castle county vo", "ncc votech",
                                  "ncco votech", "new castle vocational">>]
          [] k = "POLYTECH" ->
               [displayName |-> "Polytech School District",
                matchTerms  |-> <<"polytech">>]
          [] k = "SUSSEX TECH" ->
               [displayName |-> "Sussex Technical School District",
                matchTerms  |-> <<"sussex tech">>]]

\* one iteration of the loop of matchVotech: does the entry of key match
votechEntryMatches(lower, key) ==
    LET info == VOTECH_MAP[key]
        core == districtCore(info.displayName)
    IN  \/ Len(core) > 2 /\ includes(lower, core)
        \/ \E t \in 1..Len(info.matchTerms) : includes(lower, info.matchTerms[t])
        \/ includes(lower, toLowerCase(key))

RECURSIVE matchVotechFrom(_, _)
matchVotechFrom(lower, i) ==
    IF i > Len(VOTECH_KEYS) THEN NoString
    ELSE IF votechEntryMatches(lower, VOTECH_KEYS[i]) THEN VOTECH_KEYS[i]
    ELSE matchVotechFrom(lower, i + 1)

\* the loop of matchVotech without its early return: the last entry that
\* matches, in VOTECH_MAP order
matchVotechLastEntry(closing) ==
    LET lower == toLowerCase(closing.schoolName \o " " \o closing.status)
        idx   == {i \in 1..Len(VOTECH_KEYS) : votechEntryMatches(lower, VOTECH_KEYS[i])}
    IN  IF idx = {} THEN NoString
        ELSE VOTECH_KEYS[CHOOSE i \in idx : \A j \in idx : j <= i]

matchVotech(closing) ==
    matchVotechFrom(toLowerCase(closing.schoolName \o " " \o closing.status), 1)

-----------------------------------------------------------------------------
(* Lookup maps: a JavaScript object used as a dictionary is a function *)

EmptyMap == [k \in {} |-> NULL]

Put(m, k, v) == [x \in DOMAIN m \cup {k} |-> IF x = k THEN v ELSE m[x]]

\* the copy tagged with the label of the feed row instead of the matched name
WithMatchedDistrictFeedLabel(c, dm) ==
    [schoolName |-> c.schoolName, status |-> c.status, statusType |-> c.statusType,
     date |-> c.date, matchedDistrict |-> IF dm = NoString THEN dm ELSE c.schoolName]

WithMatchedDistrict(c, dm) ==
    [schoolName |-> c.schoolName, status |-> c.status, statusType |-> c.statusType,
     date |-> c.date, matchedDistrict |-> dm]

WithMatchedVotech(c, vm) ==
    [schoolName |-> c.schoolName, status |-> c.status, statusType |-> c.statusType,
     date |-> c.date, matchedVotech |-> vm]

WithMatchedCharter(c, name) ==
    [schoolName |-> c.schoolName, status |-> c.status, statusType |-> c.statusType,
     date |-> c.date, matchedCharter |-> name]

\* closings.map(c => ({ ...c, matchedDistrict: matchDistrict(c) }))
withMatch(closings, districtNames) ==
    [i \in 1..Len(closings) |->
        WithMatchedDistrict(closings[i], matchDistrict(closings[i], districtNames))]

\* two-catalog server: for (const c of withMatch) if (c.matchedDistrict) ...
RECURSIVE byDistrictLoop2(_, _, _)
byDistrictLoop2(matched, i, byDistrict) ==
    IF i > Len(matched) THEN byDistrict
    ELSE byDistrictLoop2(matched, i + 1,
            IF matched[i].matchedDistrict # NoString
            THEN Put(byDistrict, matched[i].matchedDistrict, matched[i])
            ELSE byDistrict)

\* three-catalog server: the loop filling byDistrict
RECURSIVE byDistrictLoop3(_, _, _, _)
byDistrictLoop3(closings, districtNames, i, byDistrict) ==
    IF i > Len(closings) THEN byDistrict
    ELSE LET c  == closings[i]
             dm == matchDistrict(c, districtNames)
         IN  byDistrictLoop3(closings, districtNames, i + 1,
                IF dm # NoString /\ dm \notin DOMAIN byDistrict
                THEN Put(byDistrict, dm, WithMatchedDistrict(c, dm))
                ELSE byDistrict)

\* three-catalog server: the same loop filling byVotech
RECURSIVE byVotechLoop(_, _, _)
byVotechLoop(closings, i, byVotech) ==
    IF i > Len(closings) THEN byVotech
    ELSE LET c  == closings[i]
             vm == matchVotech(c)
         IN  byVotechLoop(closings, i + 1,
                IF vm # NoString /\ vm \notin DOMAIN byVotech
                THEN Put(byVotech, vm, WithMatchedVotech(c, vm))
                ELSE byVotech)

\* schoolName.toLowerCase().replace(/\s*\(.*?\)\s*/g, '').trim()
arcgisCore(schoolName) == trim(replaceParens(toLowerCase(schoolName)))

\* the condition 'matched' without the length floor on the feed's label
charterMatchedNoFloor(schoolName, c) ==
    LET feedLower == toLowerCase(c.schoolName \o " " \o c.status)
        feedName  == toLowerCase(c.schoolName)
    IN  \/ includes(feedLower, arcgisCore(schoolName))
        \/ includes(arcgisCore(schoolName), feedName)

\* the condition 'matched' of the charter loop
charterMatched(schoolName, c) ==
    LET feedLower == toLowerCase(c.schoolName \o " " \o c.status)
        feedName  == toLowerCase(c.schoolName)
    IN  \/ includes(feedLower, arcgisCore(schoolName))
        \/ (includes(arcgisCore(schoolName), feedName) /\ Len(feedName) > 5)

\* inner loop: the first closing, from index j, that matches schoolName; 0 if none
RECURSIVE firstCharterMatch(_, _, _)
firstCharterMatch(schoolName, closings, j) ==
    IF j > Len(closings) THEN 0
    ELSE IF charterMatched(schoolName, closings[j]) THEN j
    ELSE firstCharterMatch(schoolName, closings, j + 1)

\* outer loop over charterNames
RECURSIVE byCharterLoop(_, _, _, _)
byCharterLoop(charterNames, closings, i, byCharter) ==
    IF i > Len(charterNames) THEN byCharter
    ELSE LET schoolName == charterNames[i]
             j == firstCharterMatch(schoolName, closings, 1)
         IN  byCharterLoop(charterNames, closings, i + 1,
                IF j # 0
                THEN Put(byCharter, schoolName,
                         WithMatchedCharter(closings[j], schoolName))
                ELSE byCharter)

\* charterData.features.map(f => f.properties.SCHOOLNAME).filter(Boolean)
filterBoolean(names) == SelectSeq(names, LAMBDA n : n # NoString /\ n # "")

-----------------------------------------------------------------------------
(* Reconciliation: what each variant builds from the parsed feed *)

\* two-catalog server, fetchClosings from withMatch to byDistrict
reconcile2(closings, districtNames) ==
    LET matched == withMatch(closings, districtNames) IN
    [closings   |-> matched,
     byDistrict |-> byDistrictLoop2(matched, 1, EmptyMap)]

\* three-catalog server, fetchClosings from districtNames to byCharter
reconcile3(closings, districtNames, charterSchoolNames) ==
    [closings   |-> closings,
     byDistrict |-> byDistrictLoop3(closings, districtNames, 1, EmptyMap),
     byVotech   |-> byVotechLoop(closings, 1, EmptyMap),
     byCharter  |-> byCharterLoop(filterBoolean(charterSchoolNames), closings,
                                  1, EmptyMap)]

\* batch script: closingsWithMatch and closingsByDistrict of main
RECURSIVE closingsByDistrictLoop(_, _, _)
closingsByDistrictLoop(matched, i, closingsByDistrict) ==
    IF i > Len(matched) THEN closingsByDistrict
    ELSE closingsByDistrictLoop(matched, i + 1,
            IF matched[i].matchedDistrict # NoString
            THEN Put(closingsByDistrict, matched[i].matchedDistrict, matched[i])
            ELSE closingsByDistrict)

batchMain(closings, districtNames) ==
    LET closingsWithMatch ==
            [i \in 1..Len(closings) |->
                WithMatchedDistrict(closings[i],
                    matchClosingToDistrict(closings[i], districtNames))]
    IN  [closings   |-> closingsWithMatch,
         byDistrict |-> closingsByDistrictLoop(closingsWithMatch, 1, EmptyMap)]

-----------------------------------------------------------------------------
(* Classifier inputs: every concatenation of at most MaxTokens fragments *)

MaxTokens == 3

Tokens == {"delay", "Delayed", "delays", "Non-", "non", " day", "ing", "late",
           " start", "early", " dismissal", "closed", " "}

RECURSIVE TextsOfLen(_)
TextsOfLen(n) ==
    IF n = 0 THEN {""}
    ELSE {t \o w : t \in TextsOfLen(n - 1), w \in Tokens}

Texts == UNION {TextsOfLen(n) : n \in 0..MaxTokens}

ServerIdle ==
    /\ variant = "none"
    /\ clock = 0
    /\ districtsCache = NULL
    /\ votechCache = NULL
    /\ charterCache = NULL
    /\ closingsCache = NULL
    /\ closingsLastFetched = 0
    /\ calls = EmptyBag
    /\ sent = NULL
    /\ feedRequests = 0

\* the App component is not mounted
ClientIdle ==
    /\ app = NULL
    /\ cycles = {}
    /\ polls = 0

ReconcileIdle ==
    /\ rows = <<>>
    /\ catalogs = NULL
    /\ result = NULL

ClassifyIdle ==
    /\ text = ""
    /\ statusType = NULL

InitClassify ==
    /\ text \in Texts
    /\ statusType = NULL
    /\ ReconcileIdle
    /\ ServerIdle
    /\ ClientIdle

\* one evaluation of the classifier of each variant on the same text
Classify ==
    /\ statusType = NULL
    /\ statusType' = [two   |-> detectStatusType2(text),
                      three |-> detectStatusType3(text),
                      batch |-> batchStatusType(text)]
    /\ UNCHANGED <<clientVars, text, reconcileVars, serverVars>>

NextClassify == Classify

SpecClassify == InitClassify /\ [][NextClassify]_vars

-----------------------------------------------------------------------------
(* Reconciliation inputs: every feed of at most MaxRows rows, every district *)
(* catalog of at most MaxDistricts names                                     *)

MaxRows == 2
MaxDistricts == 2

Row(district, details, title, date) ==
    [district |-> district, details |-> details, title |-> title, date |-> date]

RowSet ==
    {Row("Appoquinimink", "", "", "2024-01-15"),
     Row(" Appoquinimink School District ", "2 hour delay", "Delay", "2024-01-16"),
     Row("  ", "Closed", "", "2024-01-15"),
     Row("Polytech School District", "Schools closed today due to weather", "",
         "2024-01-15"),
     Row("Polytech and Sussex Tech", "Early dismissal", "", "2024-01-17"),
     Row("Sussex Tech", "Closed", "", "2024-01-18")}

RECURSIVE SeqsOfLen(_, _)
SeqsOfLen(S, n) ==
    IF n = 0 THEN {<<>>}
    ELSE {Append(q, x) : q \in SeqsOfLen(S, n - 1), x \in S}

SeqsUpTo(S, n) == UNION {SeqsOfLen(S, k) : k \in 0..n}

Feeds == SeqsUpTo(RowSet, MaxRows)

DistrictNameSet ==
    {"Appoquinimink School District", "Appo School District", "DE School District"}

\* NAME identifies a district: a catalog lists no name twice
DistrictCatalogs ==
    {q \in SeqsUpTo(DistrictNameSet, MaxDistricts) :
        \A i, j \in 1..Len(q) : q[i] = q[j] => i = j}

CharterCatalogs ==
    {<<>>, <<"Odyssey Charter School (Lower School)", NoString, "Sussex Academy">>}

InitReconcile ==
    /\ rows \in Feeds
    /\ catalogs \in [districts : DistrictCatalogs, charters : CharterCatalogs]
    /\ result = NULL
    /\ ClassifyIdle
    /\ ServerIdle
    /\ ClientIdle

\* the reconciliation pass of the two-catalog server
ReconcileTwo ==
    /\ result = NULL
    /\ result' = [kind |-> "two"]
                   @@ reconcile2(parseRows(rows, 1, "two"), catalogs.districts)
    /\ UNCHANGED <<clientVars, rows, catalogs, classifyVars, serverVars>>

\* the reconciliation pass of the three-catalog server
ReconcileThree ==
    /\ result = NULL
    /\ result' = [kind |-> "three"]
                   @@ reconcile3(parseRows(rows, 1, "three"), catalogs.districts,
                                 catalogs.charters)
    /\ UNCHANGED <<clientVars, rows, catalogs, classifyVars, serverVars>>

\* the batch script: fetchClosings' rows, then main's matching
ReconcileBatch ==
    /\ result = NULL
    /\ result' = [kind |-> "batch"]
                   @@ batchMain(batchParseRows(rows, 1), catalogs.districts)
    /\ UNCHANGED <<clientVars, rows, catalogs, classifyVars, serverVars>>

NextReconcile == ReconcileTwo \/ ReconcileThree \/ ReconcileBatch

SpecReconcile == InitReconcile /\ [][NextReconcile]_vars

-----------------------------------------------------------------------------
(* The classifier on the three cells of one row, joined in every order *)

FieldTexts ==
    {"", "Late", "start", "Early", "dismissal", "Closed", "2 hour delay", "Smyrna"}

\* the orders in which three cells can be joined; details, district, title of
\* the code is the order 1, 2, 3
FieldOrders == Permutations({1, 2, 3})

\* `${a} ${b} ${c}` for the cells taken in order p
joined(cells, p) == cells[p[1]] \o " " \o cells[p[2]] \o " " \o cells[p[3]]

\* the trimmed cells of a row: details, district, title
cellsOf(row) == <<trim(row.details), trim(row.district), trim(row.title)>>

InitFields ==
    /\ rows \in {<<Row(district, details, title, "2024-01-15")>> :
                    district \in FieldTexts \ {""}, details \in FieldTexts,
                    title \in FieldTexts}
    /\ text = ""
    /\ statusType = NULL
    /\ catalogs = NULL
    /\ result = NULL
    /\ ServerIdle
    /\ ClientIdle

\* the classifiers applied to the cells of rows[1] joined in each order
ClassifyFields ==
    /\ statusType = NULL
    /\ text' = joined(cellsOf(rows[1]), [i \in {1, 2, 3} |-> i])
    /\ statusType' =
          [p \in FieldOrders |->
              [two   |-> detectStatusType2(joined(cellsOf(rows[1]), p)),
               three |-> detectStatusType3(joined(cellsOf(rows[1]), p)),
               batch |-> batchStatusType(joined(cellsOf(rows[1]), p))]]
    /\ UNCHANGED <<clientVars, rows, catalogs, result, serverVars>>

SpecFields == InitFields /\ [][ClassifyFields]_vars

-----------------------------------------------------------------------------
(* Reconciliation with catalogs that may be empty, and with charter schools *)

CatalogRowSet ==
    {Row("Appoquinimink", "", "", "2024-01-15"),
     Row("Polytech School District", "Schools closed today due to weather", "",
         "2024-01-15"),
     Row("Odyssey Charter School", "Closed", "", "2024-01-15"),
     Row("Odyssey", "2 hour delay", "Delay", "2024-01-16"),
     Row("MOT", "Closed", "", "2024-01-17")}

\* data.features of the three catalog answers: NAME, VOTECH and SCHOOLNAME
CatalogChoices ==
    [districts : {<<>>, <<"Appoquinimink School District">>},
     votech    : {<<>>, VOTECH_KEYS},
     charters  : {<<>>,
                  <<"Odyssey Charter School (Lower School)">>,
                  <<"MOT Charter School", NoString,
                    "Odyssey Charter School (Lower School)">>,
                  <<"(Lower School)", "Odyssey Charter School (Lower School)">>}]

InitCatalogs ==
    /\ rows \in SeqsUpTo(CatalogRowSet, MaxRows)
    /\ catalogs \in CatalogChoices
    /\ result = NULL
    /\ ClassifyIdle
    /\ ServerIdle
    /\ ClientIdle

\* fetchClosings does not read votechData: the passes are those of NextReconcile
SpecCatalogs == InitCatalogs /\ [][NextReconcile]_vars

-----------------------------------------------------------------------------
(* The batch script with its upstream requests: each may reject, and each   *)
(* rejection is caught where it happens                                      *)

InitBatch ==
    /\ rows \in SeqsUpTo(CatalogRowSet, MaxRows)
    /\ catalogs \in [districts : {<<>>, <<"Appoquinimink School District">>}]
    /\ result = NULL
    /\ ClassifyIdle
    /\ ServerIdle
    /\ ClientIdle

\* main: fetchDistricts returns no features and fetchClosings returns [] when
\* their request rejects; the files are written all the same. upstream records
\* how the request of CLOSINGS_URL ended.
BatchRun ==
    /\ result = NULL
    /\ \E feedAnswer \in {"ok", "error"}, districtsAnswer \in {"ok", "error"} :
          result' = [kind |-> "batch", upstream |-> feedAnswer]
                      @@ batchMain(IF feedAnswer = "ok" THEN batchParseRows(rows, 1)
                                   ELSE <<>>,
                                   IF districtsAnswer = "ok" THEN catalogs.districts
                                   ELSE <<>>)
    /\ UNCHANGED <<clientVars, rows, catalogs, classifyVars, serverVars>>

SpecBatch == InitBatch /\ [][BatchRun]_vars

-----------------------------------------------------------------------------
(* The Express servers: GET /api/closings -> fetchClosings, with the caches *)

MaxElapsed == 2          \* how far the clock runs beyond its start
MaxRefreshes == 2        \* requests that go upstream, in all

CLOSINGS_TTL == 1        \* 3 * 60 * 1000 ms; the clock counts periods of 3 minutes

MaxTime == CLOSINGS_TTL + MaxElapsed

ServerVariants == {"two", "three"}

\* what CLOSINGS_URL may answer, as parsed rows
ServerFeeds ==
    {<<>>,
     <<Row("  ", "Closed", "", "2024-01-15")>>,
     <<Row("Appoquinimink", "", "", "2024-01-15"),
       Row(" Appoquinimink School District ", "2 hour delay", "Delay", "2024-01-16")>>}

\* what DISTRICTS_URL, VOTECH_URL and CHARTER_URL may answer: data.features,
\* reduced to the properties the servers read
UpstreamCatalog(cat) ==
    CASE cat = "districts" ->
            {[features |-> <<>>],
             [features |-> <<"Appoquinimink School District">>]}
      [] cat = "votech" ->
            {[features |-> <<"NEW CASTLE", "POLYTECH", "SUSSEX TECH">>]}
      [] cat = "charter" ->
            {[features |-> <<"Odyssey Charter School (Lower School)", NoString>>]}

\* the catalogs fetchClosings loads before matching
CatalogsOf(v) == IF v = "two" THEN {"districts"} ELSE {"districts", "votech", "charter"}

NoCatalogs == [districts |-> NULL, votech |-> NULL, charter |-> NULL]

\* a fetchClosings invocation suspended at an await
NewCall(now) ==
    [pc       |-> "awaitFeed", \* awaitFeed, awaitCatalogs, thrown
     now      |-> now,         \* const now = Date.now()
     data     |-> <<>>,        \* const { data }, the rows of the feed answer
     closings |-> <<>>,        \* const closings, filled by the row loop
     fetching |-> {},          \* catalogs whose axios.get, started here, is in flight
     got      |-> NoCatalogs]  \* what the catalog getters returned to this call

\* an invocation that has thrown, whose other catalog requests are still out
Thrown(fetching) ==
    [pc |-> "thrown", now |-> 0, data |-> <<>>, closings |-> <<>>,
     fetching |-> fetching, got |-> NoCatalogs]

\* the last answer of the /api/closings route: the outcome of the upstream
\* request that led to it ("none" when served from the cache) and the status;
\* the body of a 200 is the object closingsCache refers to at that moment
NothingSent == [upstream |-> "none", status |-> 0]

Answer(upstream, status) == [upstream |-> upstream, status |-> status]

\* calls without r, and with r replaced by q
Without(r) == calls (-) SetToBag({r})
Replaced(r, q) == (calls (-) SetToBag({r})) (+) SetToBag({q})

InitServer ==
    /\ variant \in ServerVariants
    /\ clock = CLOSINGS_TTL
    /\ districtsCache = NULL
    /\ votechCache = NULL
    /\ charterCache = NULL
    /\ closingsCache = NULL
    /\ closingsLastFetched = 0
    /\ calls = EmptyBag
    /\ sent = NothingSent
    /\ feedRequests = 0
    /\ ClassifyIdle
    /\ ReconcileIdle
    /\ ClientIdle

CacheOf(cat) ==
    CASE cat = "districts" -> districtsCache
      [] cat = "votech"    -> votechCache
      [] cat = "charter"   -> charterCache

\* the early return without the age of the cache
isFreshNoTTL(now) == closingsCache # NULL

\* the condition of the early return of fetchClosings
isFresh(now) == closingsCache # NULL /\ now - closingsLastFetched < CLOSINGS_TTL

\* fetchVotechDistricts: each feature gets NAME from VOTECH_MAP, or its key
enrich(data) ==
    [features |->
        [i \in 1..Len(data.features) |->
            LET key == data.features[i] IN
            [VOTECH |-> key,
             NAME   |-> IF key \in DOMAIN VOTECH_MAP
                        THEN VOTECH_MAP[key].displayName ELSE key]]]

\* what a catalog getter stores and returns for the answer data
Stored(cat, data) == IF cat = "votech" THEN enrich(data) ELSE data

\* The row loop and the matching are functions of the answers alone; they are
\* tabulated once over the answers the upstream may give.
ParsedFeeds ==
    [v \in ServerVariants |-> [f \in ServerFeeds |-> parseRows(f, 1, v)]]

Reconciled2 ==
    [k \in {<<ParsedFeeds["two"][f], d.features>> :
                f \in ServerFeeds, d \in UpstreamCatalog("districts")} |->
        reconcile2(k[1], k[2])]

Reconciled3 ==
    [k \in {<<ParsedFeeds["three"][f], d.features, c.features>> :
                f \in ServerFeeds, d \in UpstreamCatalog("districts"),
                c \in UpstreamCatalog("charter")} |->
        reconcile3(k[1], k[2], k[3])]

\* the tail of fetchClosings: matching, then the object stored and returned
buildResult(v, closings, got, at) ==
    IF v = "two"
    THEN Reconciled2[<<closings, got.districts.features>>] @@ [fetchedAt |-> at]
    ELSE Reconciled3[<<closings, got.districts.features, got.charter.features>>]
           @@ [fetchedAt |-> at]

\* time passes
Tick ==
    /\ clock < MaxTime
    /\ clock' = clock + 1
    /\ UNCHANGED <<clientVars, variant, feedRequests, districtsCache, votechCache,
                   charterCache,
                   closingsCache, closingsLastFetched, calls, sent,
                   classifyVars, reconcileVars>>

\* GET /api/closings, fetchClosings returns the cached object
CacheHit ==
    /\ isFresh(clock)
    /\ sent' = Answer("none", 200)
    /\ UNCHANGED <<clientVars, variant, feedRequests, clock, districtsCache, votechCache,
                   charterCache,
                   closingsCache, closingsLastFetched, calls,
                   classifyVars, reconcileVars>>

\* GET /api/closings, fetchClosings goes on to axios.get(CLOSINGS_URL)
StartRefresh ==
    /\ feedRequests < MaxRefreshes
    /\ ~isFresh(clock)
    /\ calls' = calls (+) SetToBag({NewCall(clock)})
    /\ feedRequests' = feedRequests + 1
    /\ UNCHANGED <<clientVars, variant, clock, districtsCache, votechCache, charterCache,
                   closingsCache, closingsLastFetched, sent,
                   classifyVars, reconcileVars>>

\* the rejection caught inside fetchClosings: the cache is cleared and the
\* route answers 200
FeedFailsSwallowed(r) ==
    /\ r.pc = "awaitFeed"
    /\ calls' = Without(r)
    /\ closingsCache' = NULL
    /\ closingsLastFetched' = 0
    /\ sent' = Answer("error", 200)
    /\ UNCHANGED <<clientVars, variant, feedRequests, clock, districtsCache, votechCache,
                   charterCache, classifyVars, reconcileVars>>

\* axios.get(CLOSINGS_URL) rejects: fetchClosings throws, the route answers 500
FeedFails(r) ==
    /\ r.pc = "awaitFeed"
    /\ calls' = Without(r)
    /\ sent' = Answer("error", 500)
    /\ UNCHANGED <<clientVars, variant, feedRequests, clock, districtsCache, votechCache,
                   charterCache,
                   closingsCache, closingsLastFetched,
                   classifyVars, reconcileVars>>

\* the feed arrives and every catalog is cached: the getters return the caches,
\* fetchClosings matches, stores and returns in the same turn of the event loop
FeedThenStore(r) ==
    /\ r.pc = "awaitFeed"
    /\ \A cat \in CatalogsOf(variant) : CacheOf(cat) # NULL
    /\ \E feed \in ServerFeeds :
          LET got == [districts |-> districtsCache, votech |-> votechCache,
                      charter |-> charterCache]
          IN  /\ closingsCache' = buildResult(variant, ParsedFeeds[variant][feed],
                                              got, clock)
              /\ rows' = feed
    /\ closingsLastFetched' = r.now
    /\ sent' = Answer("ok", 200)
    /\ calls' = Without(r)
    /\ UNCHANGED <<clientVars, variant, feedRequests, clock, districtsCache, votechCache,
                   charterCache, classifyVars, catalogs, result>>

\* the getters without their early return: every catalog is requested again
FeedThenAwaitCatalogsRefetchAll(r) ==
    /\ r.pc = "awaitFeed"
    /\ \E feed \in ServerFeeds :
          calls' = Replaced(r,
                      [r EXCEPT
                          !.pc = "awaitCatalogs",
                          !.data = feed,
                          !.closings = ParsedFeeds[variant][feed],
                          !.fetching = CatalogsOf(variant),
                          !.got = NoCatalogs])
    /\ UNCHANGED <<clientVars, variant, feedRequests, clock, districtsCache, votechCache,
                   charterCache,
                   closingsCache, closingsLastFetched, sent,
                   classifyVars, reconcileVars>>

\* the feed arrives and some catalog is not cached: its getter starts axios.get
FeedThenAwaitCatalogs(r) ==
    /\ r.pc = "awaitFeed"
    /\ \E cat \in CatalogsOf(variant) : CacheOf(cat) = NULL
    /\ \E feed \in ServerFeeds :
          calls' = Replaced(r,
                      [r EXCEPT
                          !.pc = "awaitCatalogs",
                          !.data = feed,
                          !.closings = ParsedFeeds[variant][feed],
                          !.fetching = {cat \in CatalogsOf(variant) : CacheOf(cat) = NULL},
                          !.got = [cat \in DOMAIN NoCatalogs |->
                                      IF cat \in CatalogsOf(variant) THEN CacheOf(cat)
                                      ELSE NULL]])
    /\ UNCHANGED <<clientVars, variant, feedRequests, clock, districtsCache, votechCache,
                   charterCache,
                   closingsCache, closingsLastFetched, sent,
                   classifyVars, reconcileVars>>

\* a catalog answer arrives: the getter fills its cache and returns the data;
\* when it was the last one awaited, fetchClosings matches, stores and returns
CatalogArrives(r, cat) ==
    /\ cat \in r.fetching
    /\ \E data \in UpstreamCatalog(cat) :
          LET got == [r.got EXCEPT ![cat] = Stored(cat, data)] IN
          /\ districtsCache' = IF cat = "districts" THEN Stored(cat, data)
                               ELSE districtsCache
          /\ votechCache' = IF cat = "votech" THEN Stored(cat, data)
                            ELSE votechCache
          /\ charterCache' = IF cat = "charter" THEN Stored(cat, data)
                             ELSE charterCache
          /\ IF r.fetching # {cat}
             THEN /\ calls' = Replaced(r,
                                IF r.pc = "thrown" THEN Thrown(r.fetching \ {cat})
                                ELSE [r EXCEPT !.fetching = @ \ {cat}, !.got = got])
                  /\ UNCHANGED <<closingsCache, closingsLastFetched, sent, rows>>
             ELSE IF r.pc = "awaitCatalogs"
             THEN /\ closingsCache' = buildResult(variant, r.closings, got, clock)
                  /\ rows' = r.data
                  /\ closingsLastFetched' = r.now
                  /\ sent' = Answer("ok", 200)
                  /\ calls' = Without(r)
             ELSE /\ calls' = Without(r)
                  /\ UNCHANGED <<closingsCache, closingsLastFetched, sent, rows>>
    /\ UNCHANGED <<clientVars, variant, feedRequests, clock, classifyVars, catalogs, result>>

\* a catalog request rejects: Promise.all rejects, fetchClosings throws and the
\* route answers 500, once; the other requests of the call stay in flight
CatalogFails(r, cat) ==
    /\ cat \in r.fetching
    /\ calls' = IF r.fetching = {cat} THEN Without(r)
                ELSE Replaced(r, Thrown(r.fetching \ {cat}))
    /\ sent' = IF r.pc = "awaitCatalogs" THEN Answer("error", 500) ELSE sent
    /\ UNCHANGED <<clientVars, variant, feedRequests, clock, districtsCache, votechCache,
                   charterCache,
                   closingsCache, closingsLastFetched,
                   classifyVars, reconcileVars>>

Next ==
    \/ Tick
    \/ CacheHit
    \/ StartRefresh
    \/ \E r \in BagToSet(calls) : FeedFails(r)
    \/ \E r \in BagToSet(calls) : FeedThenStore(r)
    \/ \E r \in BagToSet(calls) : FeedThenAwaitCatalogs(r)
    \/ \E r \in BagToSet(calls), cat \in DOMAIN NoCatalogs : CatalogArrives(r, cat)
    \/ \E r \in BagToSet(calls), cat \in DOMAIN NoCatalogs : CatalogFails(r, cat)

Init == InitServer

Spec == Init /\ [][Next]_vars

-----------------------------------------------------------------------------
(* The App component of the clients: loadData, called on mount and then by *)
(* setInterval every POLL_INTERVAL, whether or not the previous call ended  *)

MaxPolls == 2            \* calls of loadData, in all

Clients == {"single", "three"}

\* the component after its first render: the arguments of useState and useRef
Mounted(client) ==
    [client            |-> client,
     closings          |-> <<>>,
     closingsByDistrict |-> EmptyMap,
     closingsByVotech  |-> EmptyMap,
     closingsByCharter |-> EmptyMap,
     districts         |-> NULL,
     votechDistricts   |-> NULL,
     charterSchools    |-> NULL,
     fetchedAt         |-> NoString,
     loading           |-> TRUE,
     error             |-> NoString,
     districtsLoaded   |-> FALSE,
     votechLoaded      |-> FALSE,
     charterLoaded     |-> FALSE]

\* what the component shows of the server's data, and the catalog-loaded refs
ShownData(a) ==
    [closings          |-> a.closings,
     closingsByDistrict |-> a.closingsByDistrict,
     closingsByVotech  |-> a.closingsByVotech,
     closingsByCharter |-> a.closingsByCharter,
     fetchedAt         |-> a.fetchedAt,
     districts         |-> a.districts,
     votechDistricts   |-> a.votechDistricts,
     charterSchools    |-> a.charterSchools,
     districtsLoaded   |-> a.districtsLoaded,
     votechLoaded      |-> a.votechLoaded,
     charterLoaded     |-> a.charterLoaded]

\* fetchKeys: the closings, then every catalog whose ref is not set
fetchKeys(a) ==
    <<"closings">>
      \o (IF ~a.districtsLoaded THEN <<"districts">> ELSE <<>>)
      \o (IF a.client = "three" /\ ~a.votechLoaded THEN <<"votech">> ELSE <<>>)
      \o (IF a.client = "three" /\ ~a.charterLoaded THEN <<"charter">> ELSE <<>>)

\* the feeds behind the bodies of /api/closings
ClientFeeds ==
    {<<>>, <<Row("Appoquinimink", "2 hour delay", "Delay", "2024-01-16")>>}

\* bodies of /api/closings from the three-catalog and the two-catalog server
ClosingsBodies ==
    {reconcile3(parseRows(f, 1, "three"), <<"Appoquinimink School District">>, <<>>)
        @@ [fetchedAt |-> IF f = <<>> THEN "2024-01-15T06:00:00.000Z"
                          ELSE "2024-01-16T06:00:00.000Z"] : f \in ClientFeeds}
    \cup
    {reconcile2(parseRows(f, 1, "two"), <<"Appoquinimink School District">>)
        @@ [fetchedAt |-> IF f = <<>> THEN "2024-01-15T06:03:00.000Z"
                          ELSE "2024-01-16T06:03:00.000Z"] : f \in ClientFeeds}

\* bodies of a 200 answer of each route
Bodies(key) ==
    CASE key = "closings"  -> ClosingsBodies
      [] key = "districts" -> {[features |-> <<"Appoquinimink School District">>]}
      [] key = "votech"    -> {enrich([features |-> VOTECH_KEYS])}
      [] key = "charter"   -> {[features |-> <<"Odyssey Charter School (Lower School)">>]}

\* a Response: res.json(...) of a route, or its res.status(500).json(...)
Responses(key) ==
    {[ok |-> TRUE, status |-> 200, json |-> b] : b \in Bodies(key)}
      \cup {[ok |-> FALSE, status |-> 500, json |-> NULL]}

RECURSIVE ResponseLists(_, _)
ResponseLists(keys, i) ==
    IF i > Len(keys) THEN {<<>>}
    ELSE {<<r>> \o rest : r \in Responses(keys[i]),
                          rest \in ResponseLists(keys, i + 1)}

\* the message of the Error thrown for a response that is not ok
notOkMessage(client, key) ==
    IF client = "single" /\ key = "districts" THEN "Districts API error: 500"
    ELSE "API error: 500"

\* json.byDistrict || {}
orEmptyObject(json, field) ==
    IF field \in DOMAIN json THEN json[field] ELSE EmptyMap

\* the setters called for the body of one response
applyJson(a, key, json) ==
    CASE key = "closings" /\ a.client = "single" ->
            [a EXCEPT !.closings = json.closings,
                      !.closingsByDistrict = json.byDistrict,
                      !.fetchedAt = json.fetchedAt]
      [] key = "closings" /\ a.client = "three" ->
            [a EXCEPT !.closings = json.closings,
                      !.closingsByDistrict = orEmptyObject(json, "byDistrict"),
                      !.closingsByVotech = orEmptyObject(json, "byVotech"),
                      !.closingsByCharter = orEmptyObject(json, "byCharter"),
                      !.fetchedAt = json.fetchedAt]
      [] key = "districts" ->
            [a EXCEPT !.districts = json, !.districtsLoaded = TRUE]
      [] key = "votech" ->
            [a EXCEPT !.votechDistricts = json, !.votechLoaded = TRUE]
      [] key = "charter" ->
            [a EXCEPT !.charterSchools = json, !.charterLoaded = TRUE]

\* catch (err): setError(err.message); setLoading(false)
caught(a, message) == [a EXCEPT !.error = message, !.loading = FALSE]

\* the end of the try block: setLoading(false); setError(null)
loaded(a) == [a EXCEPT !.loading = FALSE, !.error = NoString]

InitClient ==
    /\ app \in {Mounted(client) : client \in Clients}
    /\ cycles = {}
    /\ polls = 0
    /\ ClassifyIdle
    /\ ReconcileIdle
    /\ ServerIdle

\* loadData up to await Promise.all: the requests are sent. before is what
\* the component showed when the call started.
LoadData ==
    /\ polls < MaxPolls
    /\ polls' = polls + 1
    /\ cycles' = cycles \cup {[id        |-> polls + 1,
                               fetchKeys |-> fetchKeys(app),
                               responses |-> <<>>,
                               i         |-> 0,
                               before    |-> ShownData(app)]}
    /\ UNCHANGED <<app, classifyVars, reconcileVars, serverVars>>

\* one of the fetch promises rejects: Promise.all rejects, the catch runs
RequestRejects(c) ==
    /\ c.i = 0
    /\ app' = caught(app, "Failed to fetch")
    /\ cycles' = cycles \ {c}
    /\ UNCHANGED <<polls, classifyVars, reconcileVars, serverVars>>

\* Promise.all resolves: the first response is tested, then its body awaited
ResponsesArrive(c) ==
    /\ c.i = 0
    /\ \E responses \in ResponseLists(c.fetchKeys, 1) :
          IF ~responses[1].ok
          THEN /\ app' = caught(app, notOkMessage(app.client, c.fetchKeys[1]))
               /\ cycles' = cycles \ {c}
          ELSE /\ cycles' = (cycles \ {c})
                              \cup {[c EXCEPT !.responses = responses, !.i = 1]}
               /\ app' = app
    /\ UNCHANGED <<polls, classifyVars, reconcileVars, serverVars>>

\* the body of response i is read: its setters run, then the next response is
\* tested and its body awaited, or the try block ends
JsonArrives(c) ==
    /\ c.i >= 1
    /\ LET set == applyJson(app, c.fetchKeys[c.i], c.responses[c.i].json) IN
       IF c.i = Len(c.fetchKeys)
       THEN /\ app' = loaded(set)
            /\ cycles' = cycles \ {c}
       ELSE IF ~c.responses[c.i + 1].ok
       THEN /\ app' = caught(set, notOkMessage(app.client, c.fetchKeys[c.i + 1]))
            /\ cycles' = cycles \ {c}
       ELSE /\ app' = set
            /\ cycles' = (cycles \ {c}) \cup {[c EXCEPT !.i = c.i + 1]}
    /\ UNCHANGED <<polls, classifyVars, reconcileVars, serverVars>>

\* the body of response i cannot be read: json() rejects, the catch runs
JsonRejects(c) ==
    /\ c.i >= 1
    /\ app' = caught(app, "Unexpected end of JSON input")
    /\ cycles' = cycles \ {c}
    /\ UNCHANGED <<polls, classifyVars, reconcileVars, serverVars>>

NextClient ==
    \/ LoadData
    \/ \E c \in cycles : RequestRejects(c)
    \/ \E c \in cycles : ResponsesArrive(c)
    \/ \E c \in cycles : JsonArrives(c)
    \/ \E c \in cycles : JsonRejects(c)

SpecClient == InitClient /\ [][NextClient]_vars

-----------------------------------------------------------------------------
(* Claims about the classifier *)

Schemes == {"two", "three", "batch"}

\* an occurrence of w in s, delimited on both sides by white space or an end of s
SpaceDelimited(s, w) ==
    \E i \in 0..(Len(s) - Len(w)) :
        /\ SubSeq(s, i + 1, i + Len(w)) = w
        /\ (i = 0 \/ IsSpace(Char(s, i)))
        /\ (i + Len(w) = Len(s) \/ IsSpace(Char(s, i + Len(w) + 1)))

\* an occurrence of w in s, delimited on both sides by a character that is
\* no letter, digit or underscore, or by an end of s
NonWordDelimited(s, w) ==
    \E i \in 0..(Len(s) - Len(w)) :
        /\ SubSeq(s, i + 1, i + Len(w)) = w
        /\ (i = 0 \/ ~IsWordChar(Char(s, i)))
        /\ (i + Len(w) = Len(s) \/ ~IsWordChar(Char(s, i + Len(w) + 1)))

DelayForms == {"delay", "delayed", "delays"}

\* 'delay' occurs in t, but never as a word of its own between white space
DelayOnlyInCompound(t) ==
    /\ includes(toLowerCase(t), "delay")
    /\ \A w \in DelayForms : ~SpaceDelimited(toLowerCase(t), w)

\* 'delay' occurs in t, but only inside longer runs of letters, digits, underscores
DelayOnlyEmbedded(t) ==
    /\ includes(toLowerCase(t), "delay")
    /\ \A w \in DelayForms : ~NonWordDelimited(toLowerCase(t), w)

\* C5 as stated: a text with delay / delayed / delays as a whole word is
\* classified 'delay' by every variant, and a text in which 'delay' occurs only
\* inside a compound such as 'Non-delay day' is not classified 'delay'.
C5_AsStated ==
    statusType # NULL =>
        /\ (\E w \in DelayForms : SpaceDelimited(toLowerCase(text), w))
              => \A v \in Schemes : statusType[v] = "delay"
        /\ (DelayOnlyInCompound(text) /\ ~includes(toLowerCase(text), "late"))
              => \A v \in Schemes : statusType[v] # "delay"

\* C5 amended: a text with delay / delayed / delays delimited on both sides by
\* a character other than a letter, digit or underscore (or by an end of the
\* text) is classified 'delay' by every variant, so the hyphenated 'Non-delay
\* day' is classified 'delay'; a text in which 'delay' occurs only inside a
\* longer alphanumeric word, and which has no 'late', is not classified 'delay'.
C5_WordBoundedDelay ==
    statusType # NULL =>
        /\ (\E w \in DelayForms : NonWordDelimited(toLowerCase(text), w))
              => \A v \in Schemes : statusType[v] = "delay"
        /\ (DelayOnlyEmbedded(text) /\ ~includes(toLowerCase(text), "late"))
              => \A v \in Schemes : statusType[v] # "delay"
        /\ text = "Non-delay day" => \A v \in Schemes : statusType[v] = "delay"

C5_Witness ==
    /\ statusType # NULL
    /\ text = "Non-delay day"
    /\ statusType["three"] = "delay"

C5_WitnessEmbedded ==
    /\ statusType # NULL
    /\ text = "nondelay day"
    /\ statusType["three"] = "info"
    /\ statusType["two"] = "closed"

Categories(v) ==
    IF v = "three" THEN {"closed", "delay", "early dismissal", "info"}
    ELSE {"closed", "delay", "early dismissal"}

\* the keywords a scheme looks for, as plain fragments of the lowercased text
Keywords(v) ==
    IF v = "three" THEN {"delay", "early", "clos"}
    ELSE {"delay", "late", "early", "dismiss"}

DefaultCategory(v) == IF v = "three" THEN "info" ELSE "closed"

\* C6: every text is classified, by each variant, as exactly one category of
\* that variant's fixed set, and a text containing none of the variant's
\* keywords gets the variant's default ('closed', or 'info' in the
\* three-catalog server).
C6_TotalWithDefault ==
    statusType # NULL =>
        \A v \in Schemes :
            /\ statusType[v] \in Categories(v)
            /\ (\A k \in Keywords(v) : ~includes(toLowerCase(text), k))
                  => statusType[v] = DefaultCategory(v)

C6_Witness ==
    /\ statusType # NULL
    /\ text = "Non- day"
    /\ statusType["three"] = "info"
    /\ statusType["two"] = "closed"
    /\ statusType["batch"] = "closed"

-----------------------------------------------------------------------------
(* Claims about reconciliation *)

\* the four fields every closure record has
Data(c) ==
    [schoolName |-> c.schoolName, status |-> c.status,
     statusType |-> c.statusType, date |-> c.date]

\* the text of a record the matchers search
LowerText(c) == toLowerCase(c.schoolName \o " " \o c.status)

Min(S) == CHOOSE x \in S : \A y \in S : x <= y

\* the core of a catalog name that ends in 'school district': the lowercased
\* name without that phrase, trimmed
PhraseCore(name) ==
    LET l == toLowerCase(name)
        n == Len(l)
    IN  IF n >= 15 /\ SubSeq(l, n - 14, n) = "school district"
        THEN trim(SubSeq(l, 1, n - 15))
        ELSE trim(l)

\* name qualifies for record c
Qualifies(c, name) ==
    Len(PhraseCore(name)) > 2 /\ includes(LowerText(c), PhraseCore(name))

\* the first catalog name, in catalog order, that qualifies for c
FirstQualifying(c, names) ==
    LET idx == {i \in 1..Len(names) : Qualifies(c, names[i])} IN
    IF idx = {} THEN NoString ELSE names[Min(idx)]

\* C1 as stated: in every variant, the entry stored for a district in
\* byDistrict is the earliest record, in feed order, that matches the district.
C1_AsStated ==
    result # NULL =>
        \A k \in DOMAIN result.byDistrict :
            LET idx == {i \in 1..Len(result.closings) :
                          FirstQualifying(result.closings[i], catalogs.districts) = k}
            IN  /\ idx # {}
                /\ Data(result.byDistrict[k]) = Data(result.closings[Min(idx)])

\* C7: the district a record is matched to is the first catalog name, in
\* catalog order, whose core is longer than 2 and occurs in the lowercased
\* 'schoolName status' of the record, and none when no name qualifies; so
\* 'Appoquinimink' is matched to 'Appoquinimink School District', and a name
\* whose core has length 2 or less is matched by no record.
C7_DistrictMatching ==
    result # NULL =>
        LET matchedNames ==
                {FirstQualifying(result.closings[i], catalogs.districts) :
                    i \in 1..Len(result.closings)} \ {NoString}
        IN  /\ result.kind \in {"two", "batch"} =>
                  \A i \in 1..Len(result.closings) :
                      result.closings[i].matchedDistrict
                          = FirstQualifying(result.closings[i], catalogs.districts)
            /\ DOMAIN result.byDistrict = matchedNames
            /\ \A k \in DOMAIN result.byDistrict :
                  result.byDistrict[k].matchedDistrict = k
            /\ (/\ catalogs.districts = <<"Appoquinimink School District">>
                /\ \E i \in 1..Len(result.closings) :
                      result.closings[i].schoolName = "Appoquinimink")
                  => "Appoquinimink School District" \in DOMAIN result.byDistrict
            /\ \A n \in 1..Len(catalogs.districts) :
                  Len(PhraseCore(catalogs.districts[n])) <= 2
                      => catalogs.districts[n] \notin DOMAIN result.byDistrict

C7_Witness ==
    /\ result # NULL
    /\ result.kind = "two"
    /\ catalogs.districts = <<"DE School District", "Appo School District">>
    /\ Len(result.closings) = 1
    /\ result.closings[1].status = "2 hour delay"
    /\ result.closings[1].matchedDistrict = "Appo School District"

\* the texts by which a votech entity is recognised
Signals(key) ==
    {PhraseCore(VOTECH_MAP[key].displayName), toLowerCase(key)}
        \cup {VOTECH_MAP[key].matchTerms[t] : t \in 1..Len(VOTECH_MAP[key].matchTerms)}

HasSignal(c, key) == \E t \in Signals(key) : includes(LowerText(c), t)

PolytechRow ==
    Row("Polytech School District", "Schools closed today due to weather", "",
        "2024-01-15")

\* C8 as stated: for every votech key, when r is the first record whose text
\* contains a signal of that key, byVotech[key] is r's data, with r's category
\* and date.
C8_AsStated ==
    (result # NULL /\ result.kind = "three") =>
        \A k \in DOMAIN VOTECH_MAP :
            LET idx == {i \in 1..Len(result.closings) :
                          HasSignal(result.closings[i], k)}
            IN  idx # {} =>
                  /\ k \in DOMAIN result.byVotech
                  /\ Data(result.byVotech[k]) = Data(result.closings[Min(idx)])

\* C8 amended: byVotech[key] is present exactly when some record's first
\* entity, in VOTECH_MAP order, with a signal in the record's text is key, and
\* it is then the first such record's data with its category and date; the
\* Polytech row alone gives byVotech['POLYTECH'] 'closed' on '2024-01-15'.
C8_VotechFirstMatch ==
    (result # NULL /\ result.kind = "three") =>
        /\ \A n \in 1..Len(VOTECH_KEYS) :
              LET k   == VOTECH_KEYS[n]
                  idx == {i \in 1..Len(result.closings) :
                            /\ HasSignal(result.closings[i], k)
                            /\ \A m \in 1..(n - 1) :
                                  ~HasSignal(result.closings[i], VOTECH_KEYS[m])}
              IN  /\ k \in DOMAIN result.byVotech <=> idx # {}
                  /\ idx # {} =>
                        /\ Data(result.byVotech[k]) = Data(result.closings[Min(idx)])
                        /\ result.byVotech[k].matchedVotech = k
        /\ DOMAIN result.byVotech \subseteq DOMAIN VOTECH_MAP
        /\ rows = <<PolytechRow>> =>
              /\ result.byVotech["POLYTECH"].statusType = "closed"
              /\ result.byVotech["POLYTECH"].date = "2024-01-15"

C8_Witness ==
    /\ result # NULL
    /\ result.kind = "three"
    /\ rows = <<PolytechRow>>
    /\ "POLYTECH" \in DOMAIN result.byVotech
    /\ result.byVotech["POLYTECH"].statusType = "closed"

\* C10: a row whose trimmed label is empty is dropped, and every other row
\* appears exactly once in closings, in feed order, matched or not: closings
\* is the list of the labelled rows, no schoolName is empty.
LabelledRows(rs) == SelectSeq(rs, LAMBDA r : trim(r.district) # "")

C10_RowFiltering ==
    result # NULL =>
        LET kept == LabelledRows(rows) IN
        /\ Len(result.closings) = Len(kept)
        /\ \A i \in 1..Len(kept) :
              /\ result.closings[i].schoolName = trim(kept[i].district)
              /\ result.closings[i].schoolName # ""
              /\ result.closings[i].date = trim(kept[i].date)
              /\ result.closings[i].status
                    = (IF trim(kept[i].details) = "" THEN "Closed"
                       ELSE trim(kept[i].details))

C10_Witness ==
    /\ result # NULL
    /\ result.kind = "three"
    /\ Len(rows) = 2
    /\ trim(rows[1].district) = ""
    /\ rows[2].district = "Sussex Tech"
    /\ Len(result.closings) = 1
    /\ result.byDistrict = EmptyMap
    /\ result.closings[1].schoolName = "Sussex Tech"

-----------------------------------------------------------------------------
(* Claims about the closings cache *)

\* how many invocations wait for the answer of CLOSINGS_URL
FeedFetchesInFlight ==
    BagCardinality([r \in {q \in BagToSet(calls) : q.pc = "awaitFeed"} |-> calls[r]])

\* C2 as stated: at most one upstream fetch of the closures feed is in flight
\* at any time.
C2_AsStated == FeedFetchesInFlight <= 1

\* the cache holds a result younger than the TTL / older than the TTL
WithinTTL == closingsCache # NULL /\ clock - closingsLastFetched < CLOSINGS_TTL
Expired == closingsCache # NULL /\ clock - closingsLastFetched > CLOSINGS_TTL

ServedFromCache == sent' # sent /\ sent'.upstream = "none"

C4_FailurePreservesCache ==
    [][/\ (sent' # sent /\ sent'.upstream = "error") =>
            /\ sent'.status = 500
            /\ closingsCache' = closingsCache
            /\ closingsLastFetched' = closingsLastFetched
       /\ (closingsCache' # closingsCache \/ closingsLastFetched' # closingsLastFetched)
            => sent' = Answer("ok", 200)
       /\ sent'.upstream = "error" => sent'.status # 200
      ]_vars

C4_Witness ==
    /\ closingsCache # NULL
    /\ clock - closingsLastFetched >= CLOSINGS_TTL
    /\ sent = Answer("error", 500)
    /\ feedRequests = 2

NoResult(v) ==
    IF v = "two" THEN [closings |-> <<>>, byDistrict |-> EmptyMap]
    ELSE [closings |-> <<>>, byDistrict |-> EmptyMap, byVotech |-> EmptyMap,
          byCharter |-> EmptyMap]

\* C9: when the feed answer has no row, or only rows with an empty label,
\* fetchClosings stores and answers, with status 200, a result whose closings
\* are empty and whose lookup maps are all empty, whatever the catalogs hold;
\* the result is stamped like any other and, while it is fresh, no call goes
\* upstream.
C9_EmptyFeed ==
    [][/\ (closingsCache' # NULL /\ LabelledRows(rows') = <<>>) =>
            closingsCache' = NoResult(variant) @@ [fetchedAt |-> closingsCache'.fetchedAt]
       /\ ((closingsCache' # closingsCache \/ rows' # rows)
              /\ LabelledRows(rows') = <<>>) =>
            /\ closingsCache' # NULL
            /\ closingsCache'.fetchedAt = clock
            /\ closingsLastFetched' <= clock
            /\ sent' = Answer("ok", 200)
       /\ (LabelledRows(rows) = <<>> /\ WithinTTL) => feedRequests' = feedRequests
      ]_vars

C9_Witness ==
    /\ variant = "three"
    /\ closingsCache # NULL
    /\ Len(rows) = 1
    /\ LabelledRows(rows) = <<>>
    /\ closingsCache.closings = <<>>
    /\ closingsCache.byCharter = EmptyMap
    /\ districtsCache # NULL
    /\ districtsCache.features # <<>>
    /\ charterCache.features # <<>>
    /\ sent = Answer("ok", 200)

-----------------------------------------------------------------------------
(* Claims about the catalog caches *)

\* how many axios.get of catalog cat are in flight in the bag b of invocations
FetchesInFlight(cat, b) ==
    CopiesIn(TRUE, BagOfAll(LAMBDA q : cat \in q.fetching, b))

Populated(cat) == CacheOf(cat) # NULL

\* C11: once a catalog cache is populated it stays populated and no call, at
\* whatever time, starts another request for that catalog; a refresh of the
\* closings that finds every catalog cached goes upstream for the feed only.
C11_CatalogsCachedForever ==
    [][/\ districtsCache # NULL => districtsCache' # NULL
       /\ votechCache # NULL => votechCache' # NULL
       /\ charterCache # NULL => charterCache' # NULL
       /\ \A cat \in DOMAIN NoCatalogs :
             (Populated(cat) /\ \E r \in DOMAIN calls' : cat \in r.fetching)
                 => FetchesInFlight(cat, calls') <= FetchesInFlight(cat, calls)
      ]_vars

C11_Witness ==
    /\ variant = "three"
    /\ \A cat \in CatalogsOf(variant) : Populated(cat)
    /\ feedRequests = 2
    /\ closingsCache # NULL
    /\ closingsLastFetched > CLOSINGS_TTL
    /\ clock - closingsLastFetched < CLOSINGS_TTL
    /\ sent = Answer("ok", 200)
    /\ calls = EmptyBag

-----------------------------------------------------------------------------
(* Claims about empty catalogs and charter schools *)

\* C12 as stated: for every feed, when a catalog (districts, votech units,
\* charter schools) is empty the reconciliation completes and the match map of
\* that catalog (byDistrict, byVotech, byCharter) is empty.
C12_AsStated ==
    result # NULL =>
        /\ catalogs.districts = <<>> => result.byDistrict = EmptyMap
        /\ result.kind = "three" =>
              /\ catalogs.votech = <<>> => result.byVotech = EmptyMap
              /\ catalogs.charters = <<>> => result.byCharter = EmptyMap

\* C12 amended: for every feed, when the district catalog is empty byDistrict
\* is empty, and when the charter catalog is empty (or names no school)
\* byCharter is empty; the keys of byDistrict and byCharter are always names of
\* their catalogs, and those of byVotech are keys of VOTECH_MAP, whatever the
\* votech catalog holds.
C12_EmptyCatalogs ==
    result # NULL =>
        /\ catalogs.districts = <<>> => result.byDistrict = EmptyMap
        /\ DOMAIN result.byDistrict
              \subseteq {catalogs.districts[i] : i \in 1..Len(catalogs.districts)}
        /\ result.kind = "three" =>
              /\ catalogs.charters = <<>> => result.byCharter = EmptyMap
              /\ DOMAIN result.byCharter
                    \subseteq {catalogs.charters[i] : i \in 1..Len(catalogs.charters)}
                                 \ {NoString}
              /\ DOMAIN result.byVotech \subseteq DOMAIN VOTECH_MAP

C12_Witness ==
    /\ result # NULL
    /\ result.kind = "three"
    /\ catalogs.districts = <<>>
    /\ catalogs.charters = <<>>
    /\ catalogs.votech = <<>>
    /\ Len(result.closings) = 2
    /\ result.byDistrict = EmptyMap
    /\ result.byCharter = EmptyMap
    /\ "POLYTECH" \in DOMAIN result.byVotech

-----------------------------------------------------------------------------
(* Claims about failing upstream requests *)

\* how many invocations of fetchClosings wait in Promise.all for their catalogs
AwaitingCatalogs ==
    BagCardinality([r \in {q \in BagToSet(calls) : q.pc = "awaitCatalogs"} |->
                        calls[r]])

\* C13 as stated: a closings request whose catalog requests are out always
\* completes with a result, also when one of them fails on first load; the
\* cache of a catalog that was not loaded stays unpopulated.
C13_AsStated ==
    [][AwaitingCatalogs' < AwaitingCatalogs =>
          /\ sent' = Answer("ok", 200)
          /\ closingsCache' # NULL
      ]_vars

\* C14 as stated: a rejected request of the closures feed is surfaced as a
\* failure: no run ends with a result, with an empty closings list, built after
\* the feed request was rejected.
C14_AsStated ==
    (result # NULL /\ result.kind = "batch") => result.upstream # "error"

-----------------------------------------------------------------------------
(* Claims about the refresh decision and the refresh instant *)

Elapsed == clock - closingsLastFetched

\* C15 as stated: a call refreshes if and only if no result is stored or the
\* time elapsed since the last refresh strictly exceeds the TTL; otherwise,
\* also when the elapsed time equals the TTL, no call goes upstream.
C15_AsStated ==
    [][/\ (closingsCache # NULL /\ Elapsed <= CLOSINGS_TTL) =>
            feedRequests' = feedRequests
       /\ (closingsCache = NULL \/ Elapsed > CLOSINGS_TTL) => ~ServedFromCache
      ]_vars

\* C16 as stated: the refresh instant the cache records is the time at which
\* the result was stored, the instant of the result's fetchedAt.
C16_AsStated ==
    closingsCache # NULL => closingsLastFetched = closingsCache.fetchedAt

-----------------------------------------------------------------------------
(* Claims about the rules of the classifier *)

\* the word 'late', white space, then 'start' or 'open', in any case of letters
HasLateStart(t) ==
    LET s == toLowerCase(t) IN
    \E i \in 0..Len(s), k \in 1..Len(s) :
        /\ i = 0 \/ ~IsWordChar(Char(s, i))
        /\ LitAt(s, i, "late")
        /\ SpaceRun(s, i + 4, k)
        /\ LitAt(s, i + 4 + k, "start") \/ LitAt(s, i + 4 + k, "open")

\* C17 as stated: every variant classifies a text containing 'late start' or
\* 'late open' as 'delay', also when it has no form of the word 'delay'.
C17_AsStated ==
    (statusType # NULL /\ HasLateStart(text)) =>
        \A v \in Schemes : statusType[v] = "delay"

\* the delay rule: a form of 'delay' as a word, or 'late start' / 'late open'
MatchesDelayRule(t) ==
    \/ \E w \in DelayForms : NonWordDelimited(toLowerCase(t), w)
    \/ HasLateStart(t)

\* the early-dismissal rule of a variant
MatchesEarlyRule(v, t) ==
    IF v = "three" THEN reEarlyDismissal(toLowerCase(t))
    ELSE reEarly(toLowerCase(t)) \/ reDismiss(toLowerCase(t))

\* C19 as stated: the rules apply in the order delay, early dismissal, closed:
\* a text matching the delay rule is 'delay' whatever else it contains, and a
\* text matching the early-dismissal rule but not the delay rule is 'early
\* dismissal' whatever closure keyword it contains.
C19_AsStated ==
    statusType # NULL =>
        \A v \in Schemes :
            /\ MatchesDelayRule(text) => statusType[v] = "delay"
            /\ (~MatchesDelayRule(text) /\ MatchesEarlyRule(v, text))
                  => statusType[v] = "early dismissal"

\* C18 as stated: for every triple of detail text, entity label and title, the
\* category of their space-joined concatenation is the same for every
\* permutation of the three fields.
C18_AsStated ==
    statusType # NULL =>
        \A p, q \in FieldOrders : statusType[p] = statusType[q]

\* the cell ends with the first word of a two-word pattern
EndsWith(cell, w) ==
    /\ Len(cell) >= Len(w)
    /\ toLowerCase(SubSeq(cell, Len(cell) - Len(w) + 1, Len(cell))) = w

\* C18 amended: for every triple of detail text, entity label and title of
\* which no field ends with 'late' or 'early', the category of their
\* space-joined concatenation is the same for every permutation of the fields.
C18_OrderOfFields ==
    (/\ statusType # NULL
     /\ \A i \in 1..3 : /\ ~EndsWith(cellsOf(rows[1])[i], "late")
                         /\ ~EndsWith(cellsOf(rows[1])[i], "early"))
        => \A p, q \in FieldOrders : statusType[p] = statusType[q]

C18_Witness ==
    /\ statusType # NULL
    /\ rows = <<Row("dismissal", "2 hour delay", "Closed", "2024-01-15")>>
    /\ \A p \in FieldOrders : statusType[p].three = "delay"
    /\ \A p \in FieldOrders : statusType[p].two = "delay"

-----------------------------------------------------------------------------
(* Claims about charter schools *)

\* the match predicate: the core of the name occurs in the record's text, or
\* the record's label, longer than 5, occurs in the core
CharterPredicate(name, c) ==
    \/ includes(LowerText(c), arcgisCore(name))
    \/ /\ Len(toLowerCase(c.schoolName)) > 5
       /\ includes(arcgisCore(name), toLowerCase(c.schoolName))

\* C20: for every charter school name of the catalog, byCharter[name] is
\* present exactly when some record satisfies the match predicate, and it then
\* holds the first such record in feed order; a record whose label has length
\* 5 or less is stored only under a name whose core occurs in its text.
C20_CharterMatching ==
    (result # NULL /\ result.kind = "three") =>
        LET names == {catalogs.charters[i] : i \in 1..Len(catalogs.charters)}
                        \ {NoString}
        IN  /\ DOMAIN result.byCharter \subseteq names
            /\ \A name \in names :
                  LET idx == {i \in 1..Len(result.closings) :
                                CharterPredicate(name, result.closings[i])}
                  IN  /\ name \in DOMAIN result.byCharter <=> idx # {}
                      /\ idx # {} =>
                            /\ Data(result.byCharter[name])
                                  = Data(result.closings[Min(idx)])
                            /\ result.byCharter[name].matchedCharter = name
            /\ \A name \in DOMAIN result.byCharter :
                  Len(result.byCharter[name].schoolName) <= 5 =>
                      includes(LowerText(result.byCharter[name]), arcgisCore(name))

C20_Witness ==
    /\ result # NULL
    /\ result.kind = "three"
    /\ Len(catalogs.charters) = 3
    /\ Len(rows) = 2
    /\ rows[1].district = "MOT"
    /\ rows[2].district = "Odyssey"
    /\ DOMAIN result.byCharter = {"Odyssey Charter School (Lower School)"}
    /\ result.byCharter["Odyssey Charter School (Lower School)"].status
          = "2 hour delay"

C20_WitnessFirst ==
    /\ result # NULL
    /\ result.kind = "three"
    /\ Len(rows) = 2
    /\ rows[1].district = "Odyssey"
    /\ rows[2].district = "Odyssey Charter School"
    /\ "Odyssey Charter School (Lower School)" \in DOMAIN result.byCharter
    /\ result.byCharter["Odyssey Charter School (Lower School)"].schoolName
          = "Odyssey"

-----------------------------------------------------------------------------
(* Claims about concurrent refreshes *)

\* C21 as stated: under any interleaving of fetchClosings calls the recorded
\* refresh instant never decreases; a refresh that started earlier and
\* completes later does not overwrite what a later refresh stored.
C21_AsStated ==
    [][closingsLastFetched' >= closingsLastFetched]_vars

\* C22 as stated: a catalog cache is written at most once; once it holds a
\* value it is never replaced by another value, for any interleaving of the
\* calls that request the catalog.
C22_AsStated ==
    [][/\ districtsCache # NULL => districtsCache' = districtsCache
       /\ votechCache # NULL => votechCache' = votechCache
       /\ charterCache # NULL => charterCache' = charterCache
      ]_vars

-----------------------------------------------------------------------------
(* Claims about the lookup maps of a result *)

NamesOf(catalog) == {catalog[i] : i \in 1..Len(catalog)}

\* v is a copy of one of the records of closings
CopyOfSome(v, closings) ==
    \E i \in 1..Len(closings) :
        /\ v.schoolName = closings[i].schoolName
        /\ v.status = closings[i].status
        /\ v.statusType = closings[i].statusType
        /\ v.date = closings[i].date

\* C23: in every result of a server the keys of byDistrict are NAMEs of the
\* district catalog of that pass, the keys of byVotech are keys of VOTECH_MAP,
\* the keys of byCharter are SCHOOLNAMEs of the charter catalog, and every
\* value is a copy of a record of the result's closings whose matchedDistrict,
\* matchedVotech or matchedCharter field is the key it is stored under.
C23_MapsWellFormed ==
    (result # NULL /\ result.kind \in {"two", "three"}) =>
        /\ \A k \in DOMAIN result.byDistrict :
              /\ k \in NamesOf(catalogs.districts)
              /\ result.byDistrict[k].matchedDistrict = k
              /\ CopyOfSome(result.byDistrict[k], result.closings)
        /\ result.kind = "three" =>
              /\ \A k \in DOMAIN result.byVotech :
                    /\ k \in DOMAIN VOTECH_MAP
                    /\ result.byVotech[k].matchedVotech = k
                    /\ CopyOfSome(result.byVotech[k], result.closings)
              /\ \A k \in DOMAIN result.byCharter :
                    /\ k \in NamesOf(catalogs.charters) \ {NoString}
                    /\ result.byCharter[k].matchedCharter = k
                    /\ CopyOfSome(result.byCharter[k], result.closings)

C23_Witness ==
    /\ result # NULL
    /\ result.kind = "three"
    /\ Len(result.closings) = 2
    /\ DOMAIN result.byVotech = {"POLYTECH"}
    /\ DOMAIN result.byCharter = {"Odyssey Charter School (Lower School)"}
    /\ result.byVotech["POLYTECH"].schoolName
          # result.byCharter["Odyssey Charter School (Lower School)"].schoolName

-----------------------------------------------------------------------------
(* Claims about names with an empty core *)

\* C24 as stated: a charter school whose name is empty after stripping the
\* parentheticals and trimming never receives an entry in byCharter, whatever
\* the feed contains.
C24_AsStated ==
    (result # NULL /\ result.kind = "three") =>
        \A name \in DOMAIN result.byCharter : arcgisCore(name) # ""

-----------------------------------------------------------------------------
(* Claims about rows without detail text *)

\* no delay keyword and no early-dismissal keyword of either scheme
NoDelayOrEarlyKeyword(t) ==
    /\ ~MatchesDelayRule(t)
    /\ ~MatchesEarlyRule("two", t)
    /\ ~MatchesEarlyRule("three", t)

\* C25 as stated: in both server variants a record whose feed row had empty
\* detail text, so that its status text is the default 'Closed', and whose
\* label and title contain no delay or early-dismissal keyword, has the
\* status category 'closed'.
C25_AsStated ==
    (result # NULL /\ result.kind \in {"two", "three"}
                   /\ Len(result.closings) = Len(rows)) =>
        \A i \in 1..Len(rows) :
            (/\ trim(rows[i].details) = ""
             /\ NoDelayOrEarlyKeyword(rows[i].district)
             /\ NoDelayOrEarlyKeyword(rows[i].title)) =>
                /\ result.closings[i].status = "Closed"
                /\ result.closings[i].statusType = "closed"

-----------------------------------------------------------------------------
(* Claims about the client *)

\* loadData invocation c ends in this step by setting error
EndsWithError(c) ==
    /\ \A d \in cycles' : d.id # c.id
    /\ app'.error # NoString

\* C26 as stated: whenever a loadData cycle ends by setting error, the data
\* the component shows (closings, the closings-by-entity maps, fetchedAt, the
\* catalogs) and the catalog-loaded flags are what they were when that cycle
\* started.
C26_AsStated ==
    [][\A c \in cycles : EndsWithError(c) => ShownData(app') = c.before]_vars

====
